---- MODULE Spec2Model ----
(***************************************************************************)
(* Model of src/components/CalendarBody.tsx (react-native-big-calendar):   *)
(* the derived event structures of _CalendarBody (the two useMemo values   *)
(* internalEnrichedEventsByDate and enrichedEvents), the per-date          *)
(* classification of _renderEvents, and the initial-scroll timer effect.   *)
(*                                                                         *)
(* Time is a line of integer instants.  A calendar day is TicksPerDay      *)
(* consecutive instants: the first is dayjs startOf("day"), the last is    *)
(* dayjs endOf("day") (23:59:59.999), so endOf(d) + 1 = startOf(d + 1).    *)
(* A month is DaysPerMonth consecutive days; Date.getDate() is the         *)
(* day-of-month, starting at 1.                                            *)
(***************************************************************************)
EXTENDS Integers, Sequences, FiniteSets, TLC

VARIABLES
  events,                       \* the caller's events array (the object the props hold)
  callerEvents,                 \* history: that array as the caller built it
  enableEnrichedEvents,         \* prop
  isEventOrderingEnabled,       \* prop
  eventsAreSorted,              \* prop
  enrichedEventsByDate,         \* prop: [given |-> BOOLEAN, map |-> date key -> list]
  internalEnrichedEventsByDate, \* useMemo value, lines 164-169
  enrichedEvents,               \* useMemo value, lines 171-187
  error,                        \* "none", or the error a render threw
  flatPassRan,                  \* history: the last render ran the sort and the resolver
  firstRender,                  \* history: the flags and the enrichedEvents of the first render
  scrollOffsetMinutes,          \* prop
  cellHeight,                   \* prop
  platformOS,                   \* Platform.OS
  mounted,                      \* the component is mounted
  scrollViewCurrent,            \* scrollView.current is set (the ref is attached)
  passive,                      \* React's pending passive-effect work for the component:
                                \* "effect" (a committed render whose effect has not run yet),
                                \* "cleanup" (an unmount whose cleanup has not run yet) or "none"
  captured,                     \* <<cellHeight, scrollOffsetMinutes>> in the closure of the last effect run
  timers,                       \* the pending setTimeout callbacks, with what they captured
  timeout,                      \* the variable timeout of the last effect run: a timer id, 0 for undefined
  timerCount,                   \* timer ids handed out so far
  scheduled,                    \* history: <<Platform.OS, scrollOffsetMinutes>> of every setTimeout call
  scrollCalls                   \* history: every scrollTo call, with the props at the time of the call

layoutVars == <<events, callerEvents, enableEnrichedEvents, isEventOrderingEnabled,
                eventsAreSorted, enrichedEventsByDate, internalEnrichedEventsByDate,
                enrichedEvents, error, flatPassRan, firstRender>>

scrollVars == <<scrollOffsetMinutes, cellHeight, platformOS, mounted, scrollViewCurrent,
                passive, captured, timers, timeout, timerCount, scheduled, scrollCalls>>

vars == <<layoutVars, scrollVars>>

----------------------------------------------------------------------------
(* Bounds *)

MaxEvents == 2
MaxClusterEvents == 4
MaxInstant == 7
MaxTimers == 3
TicksPerDay == 3
DaysPerMonth == 2

----------------------------------------------------------------------------
(* Time model: dayjs / Date *)

Instants == 0 .. MaxInstant

Min2(a, b) == IF a <= b THEN a ELSE b

Max2(a, b) == IF a >= b THEN a ELSE b

MinOf(S) == CHOOSE x \in S : \A y \in S : x <= y

MaxOf(S) == CHOOSE x \in S : \A y \in S : x >= y

DayOf(t) == t \div TicksPerDay

\* dayjs(t).startOf("day")
startOfDay(t) == DayOf(t) * TicksPerDay

\* dayjs(t).endOf("day"): the last instant of t's day
endOfDay(t) == startOfDay(t) + TicksPerDay - 1

\* Date.prototype.getDate(): the day of the month, 1-based
getDate(t) == (DayOf(t) % DaysPerMonth) + 1

\* dayjs(x).isBetween(lo, hi, null, "[)")
isBetween(x, lo, hi) == lo <= x /\ x < hi

isBefore(a, b) == a < b

isAfter(a, b) == a > b

\* date.format(SIMPLE_DATE_FORMAT): <<month index, day of month>>
DateKey(t) == <<DayOf(t) \div DaysPerMonth, getDate(t)>>

\* the days the instants lie on
NumDays == DayOf(MaxInstant) + 1

\* the dateRange prop: one dayjs value per visible day
dateRange == [d \in 1 .. NumDays |-> (d - 1) * TicksPerDay]

----------------------------------------------------------------------------
(* Events *)

\* ICalendarEventBase: start, end; id stands for the object's identity (its
\* index in the array the caller built)
EventAt(i, se) == [id |-> i, start |-> se[1], end |-> se[2]]

\* the array of n events whose <<start, end>> are f[1], ..., f[n]
EventList(n, f) == [i \in 1 .. n |-> EventAt(i, f[i])]

\* end >= start; zero-duration events are legal
WellFormed == { se \in Instants \X Instants : se[1] <= se[2] }

\* events that last at least one instant and less than a day
Short == { se \in WellFormed : se[1] < se[2] /\ se[2] - se[1] < TicksPerDay }

\* events from the start of a day to the end of a day; those that end on an
\* earlier day than they start are malformed (end < start)
DayAligned ==
  { <<dateRange[d1], endOfDay(dateRange[d2])>> : d1 \in 1 .. NumDays, d2 \in 1 .. NumDays }

\* the intersection of the half-open ranges [start, end) is not empty
Overlaps(a, b) == Max2(a.start, b.start) < Min2(a.end, b.end)

IndexOf(event, list) == CHOOSE i \in 1 .. Len(list) : list[i].id = event.id

----------------------------------------------------------------------------
(* Array.prototype.sort with the comparator of lines 176-178 *)

\* (a, b) => a.start.getDate() - b.start.getDate()
compare(a, b) == getDate(a.start) - getDate(b.start)

\* e placed after every element that does not compare greater: the sort is stable
InsertSorted(e, list) ==
  LET k == Cardinality({i \in 1 .. Len(list) : compare(list[i], e) <= 0})
  IN  SubSeq(list, 1, k) \o <<e>> \o SubSeq(list, k + 1, Len(list))

RECURSIVE SortPrefix(_, _)
SortPrefix(list, n) ==
  IF n = 0 THEN <<>> ELSE InsertSorted(list[n], SortPrefix(list, n - 1))

\* events.sort(...): the array after the call (the call sorts it in place and
\* returns the same array)
sortedEvents(list) == SortPrefix(list, Len(list))

----------------------------------------------------------------------------
(* Overlap resolver (utils/datetime: getOrderOfEvent, getCountOfEventsAtEvent) *)

\* a malformed event: the resolver rejects the list with InvalidRangeError
InvalidRange(list) == \E i \in 1 .. Len(list) : list[i].end < list[i].start

\* e's range intersects that of an earlier event h, whose slot is still open
\* at e.start
holds(h, e) == Overlaps(h, e) /\ h.end > e.start

\* the slot of list[n], given the slots prev of the events before it: the
\* lowest-numbered slot that no earlier event still holds against it, else the
\* next unused slot
nextSlot(prev, list, n) ==
  LET used == {prev[j] : j \in 1 .. n - 1}
      vacated == {s \in used : \A j \in 1 .. n - 1 :
                                  prev[j] = s => ~holds(list[j], list[n])}
  IN  IF vacated # {} THEN MinOf(vacated) ELSE Cardinality(used)

RECURSIVE AssignSlots(_, _)
AssignSlots(list, n) ==
  IF n = 0 THEN <<>>
  ELSE LET prev == AssignSlots(list, n - 1) IN Append(prev, nextSlot(prev, list, n))

getOrderOfEvent(event, list) == AssignSlots(list, Len(list))[IndexOf(event, list)]

\* the indices reachable from those of S by a chain of pairwise overlaps
RECURSIVE ClusterFrom(_, _)
ClusterFrom(S, list) ==
  LET T == S \cup {j \in 1 .. Len(list) : \E i \in S : Overlaps(list[i], list[j])}
  IN  IF T = S THEN S ELSE ClusterFrom(T, list)

ClusterOf(event, list) == ClusterFrom({IndexOf(event, list)}, list)

getCountOfEventsAtEvent(event, list) ==
  LET slots == AssignSlots(list, Len(list))
  IN  1 + MaxOf({slots[j] : j \in ClusterOf(event, list)})

\* list.map(event => ({...event, overlapPosition, overlapCount}))
Resolve(list) ==
  [i \in 1 .. Len(list) |->
     [id |-> list[i].id, start |-> list[i].start, end |-> list[i].end,
      overlapPosition |-> getOrderOfEvent(list[i], list),
      overlapCount |-> getCountOfEventsAtEvent(list[i], list)]]

----------------------------------------------------------------------------
(* Per-date classification of _renderEvents, lines 239-284 *)

\* lines 240-247: the event starts on the date
startsOn(e, date) == isBetween(e.start, startOfDay(date), endOfDay(date))

\* lines 255-262: the event starts before the date and ends on it
endsOn(e, date) ==
  /\ isBefore(e.start, startOfDay(date))
  /\ isBetween(e.end, startOfDay(date), endOfDay(date))

\* lines 275-277: the event starts before the date and ends after it
spans(e, date) ==
  /\ isBefore(e.start, startOfDay(date))
  /\ isAfter(e.end, endOfDay(date))

\* lines 264-267: ({...event, start: dayjs(event.end).startOf("day")})
rebaseStart(e) == [e EXCEPT !.start = startOfDay(e.end)]

\* lines 279-283
rebaseDay(e) == [e EXCEPT !.start = startOfDay(e.end), !.end = endOfDay(e.end)]

\* lines 239-248: the events that start on the date, as they are
startingOn(list, date) ==
  LET T(e) == startsOn(e, date)
  IN  SelectSeq(list, T)

\* lines 253-268
endingOn(list, date) ==
  LET T(e) == endsOn(e, date)
      sel == SelectSeq(list, T)
  IN  [i \in 1 .. Len(sel) |-> rebaseStart(sel[i])]

\* lines 273-284
spanning(list, date) ==
  LET T(e) == spans(e, date)
      sel == SelectSeq(list, T)
  IN  [i \in 1 .. Len(sel) |-> rebaseDay(sel[i])]

\* lines 234-286: the three lists of the fragment, in the order they are rendered
flatEntries(list, date) ==
  startingOn(list, date) \o endingOn(list, date) \o spanning(list, date)

----------------------------------------------------------------------------
(* Date-bucketing enricher (utils/datetime: enrichEvents) *)

EmptyMap == <<>>

Lookup(map, key) == IF key \in DOMAIN map THEN map[key] ELSE <<>>

InsertByStart(e, list) ==
  LET k == Cardinality({i \in 1 .. Len(list) : list[i].start <= e.start})
  IN  SubSeq(list, 1, k) \o <<e>> \o SubSeq(list, k + 1, Len(list))

RECURSIVE SortByStartPrefix(_, _)
SortByStartPrefix(list, n) ==
  IF n = 0 THEN <<>> ELSE InsertByStart(list[n], SortByStartPrefix(list, n - 1))

\* the entries of one date: the three rules, each entry clipped to the date
bucketEntries(list, date) ==
  LET T1(e) == startsOn(e, date)
      T2(e) == endsOn(e, date)
      T3(e) == spans(e, date)
      s2 == SelectSeq(list, T2)
      s3 == SelectSeq(list, T3)
  IN  SelectSeq(list, T1)
        \o [i \in 1 .. Len(s2) |-> [s2[i] EXCEPT !.start = startOfDay(date)]]
        \o [i \in 1 .. Len(s3) |->
              [s3[i] EXCEPT !.start = startOfDay(date), !.end = endOfDay(date)]]

bucket(list, assumeSorted, date) ==
  LET b == bucketEntries(list, date)
  IN  Resolve(IF assumeSorted THEN b ELSE SortByStartPrefix(b, Len(b)))

enrichEvents(list, assumeSorted) ==
  LET days == {d \in 1 .. NumDays : bucketEntries(list, dateRange[d]) # <<>>}
      dayOfKey(k) == CHOOSE d \in days : DateKey(dateRange[d]) = k
  IN  [k \in {DateKey(dateRange[d]) : d \in days} |->
         bucket(list, assumeSorted, dateRange[dayOfKey(k)])]

----------------------------------------------------------------------------
(* The two derived values of _CalendarBody *)

\* lines 164-169
useMemoInternalEnrichedEventsByDate(evs, enable, byDate, assumeSorted) ==
  IF enable
    THEN (IF byDate.given THEN byDate.map ELSE enrichEvents(evs, assumeSorted))
    ELSE EmptyMap

\* a variant of lines 179-183 that resolves each event against a list holding
\* only that event
mapOverlapAlone(sorted) ==
  [i \in 1 .. Len(sorted) |->
     [id |-> sorted[i].id, start |-> sorted[i].start, end |-> sorted[i].end,
      overlapPosition |-> getOrderOfEvent(sorted[i], <<sorted[i]>>),
      overlapCount |-> getCountOfEventsAtEvent(sorted[i], <<sorted[i]>>)]]

\* lines 179-183: sortedEvents.map(...)
mapOverlap(sorted) ==
  [i \in 1 .. Len(sorted) |->
     [id |-> sorted[i].id, start |-> sorted[i].start, end |-> sorted[i].end,
      overlapPosition |-> getOrderOfEvent(sorted[i], sorted),
      overlapCount |-> getCountOfEventsAtEvent(sorted[i], sorted)]]

\* a variant of lines 171-187 without the early return of line 172
useMemoEnrichedEventsNoReturn(evs, enable, ordering) ==
  IF ordering THEN mapOverlap(sortedEvents(evs)) ELSE evs

\* lines 171-187: the value of the memo
useMemoEnrichedEvents(evs, enable, ordering) ==
  IF enable THEN <<>>
  ELSE IF ordering THEN mapOverlap(sortedEvents(evs))
  ELSE evs

\* line 176: events.sort(...) runs on the caller's array
sortRuns(enable, ordering) == ~enable /\ ordering

\* lines 171-187: the caller's array after the memo ran
eventsAfterMemo(evs, enable, ordering) ==
  IF sortRuns(enable, ordering) THEN sortedEvents(evs) ELSE evs

\* the resolver is called on a list with a malformed event
internalThrows(evs, enable, byDate) == enable /\ ~byDate.given /\ InvalidRange(evs)

flatThrows(evs, enable, ordering) == sortRuns(enable, ordering) /\ InvalidRange(evs)

\* lines 226-294: the entries rendered in the column of date
renderEvents(date) ==
  IF error # "none" THEN <<>>
  ELSE IF enableEnrichedEvents
    THEN Lookup(internalEnrichedEventsByDate, DateKey(date))
    ELSE flatEntries(enrichedEvents, date)

----------------------------------------------------------------------------
(* One render of _CalendarBody: the two memos, in source order *)

Undefined == [given |-> FALSE, map |-> EmptyMap]

\* a bucket map the caller built: one enriched event on the first date
callerEntry ==
  [id |-> 1, start |-> dateRange[1], end |-> endOfDay(dateRange[1]),
   overlapPosition |-> 0, overlapCount |-> 1]

CallerMaps == { EmptyMap, DateKey(dateRange[1]) :> <<callerEntry>> }

ByDateProps == {Undefined} \cup { [given |-> TRUE, map |-> m] : m \in CallerMaps }

\* The state a render leaves.  staleInternal / staleFlat: a dependency of the
\* memo changed (or it is the first render), so its function runs; otherwise
\* the memo keeps its value.  A throw ends the render and nothing is shown.
Render(evs, enable, ordering, assumeSorted, byDate, curInternal, curFlat, staleInternal, staleFlat) ==
  LET t1 == staleInternal /\ internalThrows(evs, enable, byDate)
      runFlat == ~t1 /\ staleFlat
      t2 == runFlat /\ flatThrows(evs, enable, ordering)
      failed == t1 \/ t2
  IN  [events |-> IF runFlat THEN eventsAfterMemo(evs, enable, ordering) ELSE evs,
       error |-> IF failed THEN "InvalidRangeError" ELSE "none",
       internal |-> IF failed THEN EmptyMap
                    ELSE IF staleInternal
                      THEN useMemoInternalEnrichedEventsByDate(evs, enable, byDate,
                                                               assumeSorted)
                      ELSE curInternal,
       flat |-> IF failed THEN <<>>
                ELSE IF staleFlat THEN useMemoEnrichedEvents(evs, enable, ordering)
                ELSE curFlat,
       ran |-> runFlat /\ sortRuns(enable, ordering)]

\* the first render of the component with the given props
InitWith(evs, enable, ordering, assumeSorted, byDate) ==
  \E r \in {Render(evs, enable, ordering, assumeSorted, byDate, EmptyMap, <<>>,
                     TRUE, TRUE)} :
      /\ callerEvents = evs
      /\ events = r.events
      /\ enableEnrichedEvents = enable
      /\ isEventOrderingEnabled = ordering
      /\ eventsAreSorted = assumeSorted
      /\ enrichedEventsByDate = byDate
      /\ internalEnrichedEventsByDate = r.internal
      /\ enrichedEvents = r.flat
      /\ error = r.error
      /\ flatPassRan = r.ran
      /\ firstRender = [enable |-> enable, ordering |-> ordering,
                        error |-> r.error, flat |-> r.flat]

\* a re-render with new values of the props; the events array is the same object
Rerender(enable, ordering, assumeSorted, byDate) ==
  \E r \in {Render(events, enable, ordering, assumeSorted, byDate,
                     internalEnrichedEventsByDate, enrichedEvents,
                     \/ enable # enableEnrichedEvents
                     \/ byDate # enrichedEventsByDate
                     \/ assumeSorted # eventsAreSorted,
                     \/ enable # enableEnrichedEvents
                     \/ ordering # isEventOrderingEnabled)} :
      /\ error = "none"
      /\ events' = r.events
      /\ enableEnrichedEvents' = enable
      /\ isEventOrderingEnabled' = ordering
      /\ eventsAreSorted' = assumeSorted
      /\ enrichedEventsByDate' = byDate
      /\ internalEnrichedEventsByDate' = r.internal
      /\ enrichedEvents' = r.flat
      /\ error' = r.error
      /\ flatPassRan' = r.ran
      /\ UNCHANGED <<callerEvents, firstRender>>
      /\ UNCHANGED scrollVars

SetEnableEnrichedEvents ==
  Rerender(~enableEnrichedEvents, isEventOrderingEnabled, eventsAreSorted,
           enrichedEventsByDate)

SetIsEventOrderingEnabled ==
  Rerender(enableEnrichedEvents, ~isEventOrderingEnabled, eventsAreSorted,
           enrichedEventsByDate)

SetEventsAreSorted ==
  Rerender(enableEnrichedEvents, isEventOrderingEnabled, ~eventsAreSorted,
           enrichedEventsByDate)

SetEnrichedEventsByDate ==
  \E byDate \in ByDateProps \ {enrichedEventsByDate} :
    Rerender(enableEnrichedEvents, isEventOrderingEnabled, eventsAreSorted, byDate)

----------------------------------------------------------------------------
(* The initial-scroll effect, lines 126-148 *)

Platforms == {"ios", "android", "web"}

ScrollOffsets == {0, 30, 60}

CellHeights == {30, 60}

\* line 135: (cellHeight * scrollOffsetMinutes) / 60; exact for the values above
scrollY(height, minutes) == (height * minutes) \div 60

\* line 140
delay(os) == IF os = "web" THEN 0 ELSE 10

\* line 128
effectSchedules(current, minutes, os) == current /\ minutes # 0 /\ os # "ios"

\* lines 143-147: the cleanup of the last effect run
cleanup(pending, id) ==
  IF id # 0 THEN {t \in pending : t.id # id} ELSE pending

\* lines 127-142 after the cleanup of the previous run: the timers, the new
\* value of timeout and the setTimeout calls made
effect(pending, count, current, height, minutes, os) ==
  IF effectSchedules(current, minutes, os)
    THEN [timers |-> pending \cup {[id |-> count + 1, y |-> scrollY(height, minutes),
                                   delay |-> delay(os)]},
          timeout |-> count + 1, count |-> count + 1,
          calls |-> {<<os, minutes>>}]
    ELSE [timers |-> pending, timeout |-> 0, count |-> count, calls |-> {}]

ScrollIdle ==
  /\ scrollOffsetMinutes = 0
  /\ cellHeight = 60
  /\ platformOS = "ios"
  /\ mounted = TRUE
  /\ scrollViewCurrent = TRUE
  /\ passive = "none"
  /\ captured = <<60, 0>>
  /\ timers = {}
  /\ timeout = 0
  /\ timerCount = 0
  /\ scheduled = {}
  /\ scrollCalls = {}

\* mount: the first render is committed and the ref is attached; the effect of
\* that render has yet to run
InitScroll ==
  \E minutes \in ScrollOffsets, height \in CellHeights, os \in Platforms :
    /\ scrollOffsetMinutes = minutes
    /\ cellHeight = height
    /\ platformOS = os
    /\ mounted = TRUE
    /\ scrollViewCurrent = TRUE
    /\ passive = "effect"
    /\ captured = <<height, minutes>>
    /\ timers = {}
    /\ timeout = 0
    /\ timerCount = 0
    /\ scheduled = {}
    /\ scrollCalls = {}

\* line 148: a render with a changed dependency is committed.  React runs the
\* effects of a render before it renders again, and runs them after the commit:
\* at once or in a later task.
DepsChange(height, minutes) ==
  /\ mounted
  /\ passive = "none"
  /\ timerCount < MaxTimers
  /\ <<height, minutes>> # <<cellHeight, scrollOffsetMinutes>>
  /\ scrollOffsetMinutes' = minutes
  /\ cellHeight' = height
  /\ passive' = "effect"
  /\ UNCHANGED <<platformOS, mounted, scrollViewCurrent, captured, timers, timeout,
                 timerCount, scheduled, scrollCalls>>
  /\ UNCHANGED layoutVars

SetScrollOffsetMinutes ==
  \E minutes \in ScrollOffsets : DepsChange(cellHeight, minutes)

SetCellHeight ==
  \E height \in CellHeights : DepsChange(height, scrollOffsetMinutes)

\* lines 126-148: the effect of the committed render runs: first the cleanup
\* the previous run returned, then the effect function with the props of the
\* render
RunEffect ==
  LET r == effect(cleanup(timers, timeout), timerCount, scrollViewCurrent,
                  cellHeight, scrollOffsetMinutes, platformOS)
  IN  /\ passive = "effect"
      /\ passive' = "none"
      /\ captured' = <<cellHeight, scrollOffsetMinutes>>
      /\ timers' = r.timers
      /\ timeout' = r.timeout
      /\ timerCount' = r.count
      /\ scheduled' = scheduled \cup r.calls
      /\ UNCHANGED <<scrollOffsetMinutes, cellHeight, platformOS, mounted,
                     scrollViewCurrent, scrollCalls>>
      /\ UNCHANGED layoutVars

\* lines 132-139: a pending callback runs, with the cellHeight and
\* scrollOffsetMinutes of the effect run that scheduled it
TimerFires ==
  \E t \in timers :
    /\ timers' = timers \ {t}
    /\ scrollCalls' =
         IF scrollViewCurrent
           THEN scrollCalls \cup
                  {[y |-> t.y, mounted |-> mounted,
                    current |-> scrollY(cellHeight, scrollOffsetMinutes),
                    captured |-> scrollY(captured[1], captured[2])]}
           ELSE scrollCalls
    /\ UNCHANGED <<scrollOffsetMinutes, cellHeight, platformOS, mounted,
                   scrollViewCurrent, passive, captured, timeout, timerCount, scheduled>>
    /\ UNCHANGED layoutVars

\* unmount is committed: the ref is detached; the cleanup of the last effect
\* run has yet to run
Unmount ==
  /\ mounted
  /\ passive = "none"
  /\ mounted' = FALSE
  /\ scrollViewCurrent' = FALSE
  /\ passive' = "cleanup"
  /\ UNCHANGED <<scrollOffsetMinutes, cellHeight, platformOS, captured, timers, timeout,
                 timerCount, scheduled, scrollCalls>>
  /\ UNCHANGED layoutVars

\* lines 143-147: the cleanup of the last effect run, run for the unmount
RunCleanup ==
  /\ passive = "cleanup"
  /\ passive' = "none"
  /\ timers' = cleanup(timers, timeout)
  /\ UNCHANGED <<scrollOffsetMinutes, cellHeight, platformOS, mounted, scrollViewCurrent,
                 captured, timeout, timerCount, scheduled, scrollCalls>>
  /\ UNCHANGED layoutVars

----------------------------------------------------------------------------
(* Spec: the component under every value of its mode props, over arrays of   *)
(* day-aligned events                                                       *)

Init ==
  /\ \E n \in 0 .. MaxEvents : \E f \in [1 .. n -> DayAligned] :
       \E enable \in BOOLEAN, ordering \in BOOLEAN, assumeSorted \in BOOLEAN,
          byDate \in ByDateProps :
         InitWith(EventList(n, f), enable, ordering, assumeSorted, byDate)
  /\ ScrollIdle

Next ==
  \/ SetEnableEnrichedEvents
  \/ SetIsEventOrderingEnabled
  \/ SetEventsAreSorted
  \/ SetEnrichedEventsByDate

Spec == Init /\ [][Next]_vars

----------------------------------------------------------------------------
(* SpecFlat: the flat-mode pass of a component mounted with the default     *)
(* mode props (lines 109, 114, 115), over every array of well-formed events *)

InitFlat ==
  /\ \E n \in 0 .. MaxEvents : \E f \in [1 .. n -> WellFormed] :
       InitWith(EventList(n, f), FALSE, TRUE, FALSE, Undefined)
  /\ ScrollIdle

NextFlat == SetEventsAreSorted

SpecFlat == InitFlat /\ [][NextFlat]_vars

----------------------------------------------------------------------------
(* SpecCluster: the flat-mode pass under the default mode props, over arrays *)
(* of up to MaxClusterEvents short events                                   *)

InitCluster ==
  /\ \E n \in 0 .. MaxClusterEvents : \E f \in [1 .. n -> Short] :
       InitWith(EventList(n, f), FALSE, TRUE, FALSE, Undefined)
  /\ ScrollIdle

SpecCluster == InitCluster /\ [][NextFlat]_vars

----------------------------------------------------------------------------
(* SpecScroll: the initial-scroll effect of a component with no events *)

InitScrollSpec ==
  /\ InitWith(<<>>, FALSE, TRUE, FALSE, Undefined)
  /\ InitScroll

NextScroll ==
  \/ SetScrollOffsetMinutes
  \/ SetCellHeight
  \/ RunEffect
  \/ TimerFires
  \/ Unmount
  \/ RunCleanup

SpecScroll == InitScrollSpec /\ [][NextScroll]_vars

----------------------------------------------------------------------------
(* Claims *)

FlatOrdered == error = "none" /\ ~enableEnrichedEvents /\ isEventOrderingEnabled

Dates == {dateRange[d] : d \in 1 .. NumDays}

\* the filters of _renderEvents that select e for the date
filtersFor(e, date) ==
  {k \in 1 .. 3 : \/ k = 1 /\ startsOn(e, date)
                  \/ k = 2 /\ endsOn(e, date)
                  \/ k = 3 /\ spans(e, date)}

shownOn(e, date) == filtersFor(e, date) # {}

inProgress(e, t) == e.start <= t /\ (t < e.end \/ (e.start = e.end /\ t = e.start))

peak(cluster, list) ==
  MaxOf({Cardinality({j \in cluster : inProgress(list[j], t)}) : t \in Instants})

\* C2: in the resolved list, all members of a connected overlap cluster carry
\* the same overlapCount, which is 1 + the largest overlapPosition of the
\* cluster and the peak number of its events in progress at one instant.
C2_ClusterCount ==
  FlatOrdered =>
    \A i \in 1 .. Len(enrichedEvents) :
      LET cluster == ClusterFrom({i}, enrichedEvents)
          count == enrichedEvents[i].overlapCount
      IN  /\ \A j \in cluster : enrichedEvents[j].overlapCount = count
          /\ count = 1 + MaxOf({enrichedEvents[j].overlapPosition : j \in cluster})
          /\ count = peak(cluster, enrichedEvents)

\* the event of the flat list an entry was made from
origin(entry) == enrichedEvents[IndexOf(entry, enrichedEvents)]

\* C3: every entry rendered on a date for an event that spans several days is
\* clipped to that date: it starts at the later of the event's start and the
\* start of the date, and ends at the earlier of the event's end and the end
\* of the date.
C3_EntriesClippedToDate ==
  (error = "none" /\ ~enableEnrichedEvents) =>
    \A date \in Dates :
      LET entries == renderEvents(date)
      IN  \A k \in 1 .. Len(entries) :
            LET e == origin(entries[k])
            IN  DayOf(e.start) # DayOf(e.end) =>
                  /\ entries[k].start = Max2(e.start, startOfDay(date))
                  /\ entries[k].end = Min2(e.end, endOfDay(date))

\* the range of e meets the day of the date (a zero-duration event: its instant
\* lies in the day)
touches(e, date) ==
  IF e.start = e.end
    THEN startOfDay(date) <= e.start /\ e.start <= endOfDay(date)
    ELSE e.start <= endOfDay(date) /\ e.end > startOfDay(date)

\* C4: in flat mode the three filters emit exactly one entry for an event on
\* every date its range meets, and none on the other dates.
C4_OneEntryPerTouchedDate ==
  (error = "none" /\ ~enableEnrichedEvents) =>
    \A date \in Dates : \A i \in 1 .. Len(enrichedEvents) :
      Cardinality(filtersFor(enrichedEvents[i], date))
        = (IF touches(enrichedEvents[i], date) THEN 1 ELSE 0)

idsOf(list) == [i \in 1 .. Len(list) |-> list[i].id]

\* C5: the list handed to the resolver is the stable sort by start instant of
\* the caller's array when eventsAreSorted is false, and the caller's array in
\* its own order when eventsAreSorted is true.
C5_SortedByStart ==
  FlatOrdered =>
    IF eventsAreSorted
      THEN idsOf(enrichedEvents) = idsOf(callerEvents)
      ELSE /\ \A i, j \in 1 .. Len(enrichedEvents) :
                i < j => enrichedEvents[i].start <= enrichedEvents[j].start
           /\ idsOf(enrichedEvents)
                = idsOf(SortByStartPrefix(callerEvents, Len(callerEvents)))

\* C6: a render that completes leaves the caller's events array as the caller
\* built it, in order and in contents, whatever the flags.
C6_CallerArrayUnchanged == error = "none" => events = callerEvents

\* C7: a render with the flags of the first render yields the enrichedEvents
\* the first render yielded, whatever was rendered in between.
C7_SameFlagsSameOutput ==
  ( /\ error = "none"
    /\ firstRender.error = "none"
    /\ enableEnrichedEvents = firstRender.enable
    /\ isEventOrderingEnabled = firstRender.ordering )
    => enrichedEvents = firstRender.flat

\* C8: an event whose end precedes its start is rejected with
\* InvalidRangeError, and no entry is emitted for it on any date.
C8_MalformedRejected ==
  \A i \in 1 .. Len(events) :
    events[i].end < events[i].start =>
      /\ error = "InvalidRangeError"
      /\ \A k \in 1 .. Len(enrichedEvents) : enrichedEvents[k].id # events[i].id
      /\ \A date \in Dates :
           LET entries == renderEvents(date)
           IN  \A k \in 1 .. Len(entries) : entries[k].id # events[i].id

\* C9: enableEnrichedEvents selects one path.  When it is true the flat list is
\* empty, the last render ran no sort and no resolver on the events, the
\* bucket map is the caller's map if given and else enrichEvents(events,
\* eventsAreSorted), and each date shows its entry of the map.  When it is
\* false the bucket map is empty and each date shows the entries of the flat
\* list.
C9_ModeSelectsOnePath ==
  error = "none" =>
    IF enableEnrichedEvents
      THEN /\ enrichedEvents = <<>>
           /\ ~flatPassRan
           /\ internalEnrichedEventsByDate
                = (IF enrichedEventsByDate.given THEN enrichedEventsByDate.map
                   ELSE enrichEvents(events, eventsAreSorted))
           /\ \A date \in Dates :
                renderEvents(date)
                  = Lookup(internalEnrichedEventsByDate, DateKey(date))
      ELSE /\ internalEnrichedEventsByDate = EmptyMap
           /\ \A date \in Dates :
                renderEvents(date) = flatEntries(enrichedEvents, date)

\* bucketed mode, entered after a flat-mode render had sorted the array, shows
\* the entries enrichEvents made
C9_Witness ==
  /\ error = "none"
  /\ enableEnrichedEvents
  /\ ~enrichedEventsByDate.given
  /\ events # callerEvents
  /\ \E date \in Dates : renderEvents(date) # <<>>

\* C10: at most one scroll timeout is pending, and it is the one scheduled
\* last (a superseded timeout is cancelled before the next is scheduled);
\* every scrollTo ran while mounted, with y = cellHeight * scrollOffsetMinutes
\* / 60 of the props current at the call; no timeout was ever scheduled on iOS
\* or with scrollOffsetMinutes = 0.
C10_ScrollTimer ==
  /\ Cardinality(timers) <= 1
  /\ \A t \in timers : t.id = timeout
  /\ \A c \in scrollCalls : c.mounted /\ c.y = c.current
  /\ \A c \in scheduled : c[1] # "ios" /\ c[2] # 0

\* What the cleanup does give: at most one scroll timeout is pending and it is
\* the one the last effect run scheduled; every scrollTo ran while mounted with
\* y of the props of the last effect run, which are the current props unless a
\* committed render still waits for its effect to run; nothing is pending once
\* the unmount has run its cleanup.
ScrollTimerOfLastEffect ==
  /\ Cardinality(timers) <= 1
  /\ \A t \in timers : t.id = timeout /\ t.y = scrollY(captured[1], captured[2])
  /\ \A c \in scrollCalls : c.mounted /\ c.y = c.captured
  /\ passive # "effect" => captured = <<cellHeight, scrollOffsetMinutes>>
  /\ (~mounted /\ passive = "none") => timers = {}
  /\ \A c \in scheduled : c[1] # "ios" /\ c[2] # 0

====
